---- MODULE Spec2Model ----
(***************************************************************************)
(* A model of the aakbar term pipeline (src/aakbar/core.py):               *)
(*   calculate_peptide_terms  - window extraction and per-set aggregation  *)
(*   intersect_peptide_terms  - merge of the per-set term tables           *)
(*   filter_peptide_terms     - score cutoff on a term table               *)
(* and of the set-list validator of the command line                       *)
(* (src/aakbar/common.py):                                                 *)
(*   DataSetValidator.convert, DataSetValidator.multiple_or_empty_set      *)
(* Each command is a sequential program; pc is its position.  An uncaught  *)
(* Python exception or sys.exit(1) ends the command in pc = "failed" with  *)
(* the exception's name in error; logged is the last logger.error message. *)
(*                                                                         *)
(* Numbers.  Scores of term tables are kept in hundredths (the tables are  *)
(* written with two decimals).  A quotient is an exact fraction <<n, d>>   *)
(* in lowest terms, so a mean is compared exactly.                         *)
(***************************************************************************)
EXTENDS Integers, Sequences, FiniteSets, TLC

VARIABLES
    pc,              \* position of the running command
    error,           \* "" or the exception that ended the command
    logged,          \* None, or Some(message) of the last logger.error call
    \* the command line and the configuration
    argv,            \* the set names given on the command line
    argidx,          \* index in argv of the next name click converts
    all_count,       \* DataSetValidator.all_count
    converted,       \* the values convert returned, in order
    setlist,         \* the set list the command loops over
    present,         \* the sets whose directory holds the command's input file
    \* intersect_peptide_terms
    infiles,         \* per-set term tables, in setlist order
    setidx,          \* index in setlist of the next set to read
    merged_frame,    \* None, or Some(table): term -> row
    n_terms_total,
    n_unique_terms,
    term_file,       \* the written <stem>_terms.tsv: NotWritten or Some(rows)
    intersect_file,  \* the written <stem>_intersect.tsv: NotWritten or Some(frame)
    \* calculate_peptide_terms
    calc_setidx,     \* index in setlist of the data set being processed
    written,         \* indices of the sets whose term table has been written
    n_recs,          \* number of records (keys) of the open FASTA file
    keyidx,          \* index of the next record to read
    raw_seq,         \* fasta[key] of the record read last, as stored
    s_scores,        \* simplicity_obj.score(seq) of that record (tenths)
    gene_terms,      \* the (term, score) pairs that record added
    term_score_list,
    n_residues,
    n_raw_terms,
    term_arr,        \* after line 261: sorted
    score_arr,       \* int16
    unique_terms,
    freqs,
    mean_scores,
    \* filter_peptide_terms
    infile,          \* the table <infilestem>_terms.tsv: columns and rows
    cutoff,          \* the --cutoff option
    term_frame       \* None, or Some(table)

ivars == <<infiles, setidx, merged_frame, n_terms_total, n_unique_terms>>
gvars == <<n_recs, keyidx, raw_seq, s_scores, gene_terms, term_score_list,
           n_residues, n_raw_terms>>
avars == <<term_arr, score_arr, unique_terms, freqs, mean_scores>>
cvars == <<calc_setidx, written, gvars, avars>>
fvars == <<infile, cutoff, term_frame>>
clivars == <<argv, argidx, all_count, converted, setlist, present>>
vars == <<pc, error, logged, term_file, intersect_file, clivars, ivars, cvars, fvars>>

----------------------------------------------------------------------------
(* Bounds of the model *)

\* longest set list given to intersect_peptide_terms
MaxSets == 3

\* the terms of the tables given to intersect and filter
Terms == {"AAAAAAAAAA", "BBBBBBBBBB"}

\* the (count, score) rows a per-set table may hold; scores in hundredths
InputRows ==
    {[count |-> 1, score |-> 10],
     [count |-> 2, score |-> 10],
     [count |-> 2, score |-> 30]}

\* the two tables of the worked example of the specification
ExampleSet1 ==
    [t \in Terms |-> IF t = "AAAAAAAAAA" THEN [count |-> 5, score |-> 10]
                                         ELSE [count |-> 2, score |-> 20]]

ExampleSet2 ==
    [t \in {"AAAAAAAAAA"} |-> [count |-> 3, score |-> 30]]

\* the per-set tables a data set directory may hold
PerSetTables ==
    UNION {[D -> InputRows] : D \in SUBSET Terms} \cup {ExampleSet1, ExampleSet2}

\* the names data sets are defined with
SetNames == <<"set1", "set2", "set3", "set4">>

\* config_obj.config_dict['sets']: the configured sets
config_sets == SubSeq(SetNames, 1, MaxSets)

\* setname in config_obj.config_dict['sets']
IsConfigured(setname) == \E i \in 1..Len(config_sets) : config_sets[i] = setname

ConfiguredSets == {config_sets[i] : i \in 1..Len(config_sets)}

\* the sets named by a set list
SetsOf(list) == {list[i] : i \in 1..Len(list)} \cap ConfiguredSets

\* logger.error('input file "%s" does not exist.', infilepath), the path
\* being that of the directory of calc_set
MissingFile(calc_set) == [text |-> "input file does not exist", arg |-> calc_set]

----------------------------------------------------------------------------
(* Generic helpers *)

None == <<>>
Some(x) == <<x>>
Get(o) == o[1]

Max2(a, b) == IF a >= b THEN a ELSE b

RECURSIVE GCD(_, _)
GCD(a, b) == IF b = 0 THEN a ELSE GCD(b, a % b)

\* the exact quotient n / d (n >= 0, d > 0), in lowest terms
Quot(n, d) == LET g == GCD(n, d) IN <<n \div g, d \div g>>

\* len(frame)
FrameLen(f) == Cardinality(DOMAIN f)

\* the orderings of the index of a frame
Orderings(S) ==
    {s \in [1..Cardinality(S) -> S] :
        \A i, j \in 1..Cardinality(S) : i # j => s[i] # s[j]}

\* float_format='%.2f' applied to the quotient q (hundredths): the nearest
\* hundredth; at an exact tie the binary value of the quotient decides
Format2(q) ==
    LET n == q[1]
        d == q[2]
        lo == n \div d
    IN  IF 2 * (n % d) < d THEN {lo}
        ELSE IF 2 * (n % d) > d THEN {lo + 1}
        ELSE {lo, lo + 1}

NotWritten == <<>>

----------------------------------------------------------------------------
(* intersect_peptide_terms: the merge loop *)

\* merged_frame built from the first table read
FirstFrame(working_frame) ==
    [t \in DOMAIN working_frame |->
        [intersections |-> 1,
         count         |-> working_frame[t].count,
         max_count     |-> working_frame[t].count,
         score         |-> working_frame[t].score * working_frame[t].count]]

\* the index of merged_frame.join(working_frame): DataFrame.join is a left
\* join, it keeps the caller's index
JoinIndex(merged, working_frame) == DOMAIN merged

\* working_count / working_score of a joined row after fillna(0)
WorkingCount(working_frame, t) ==
    IF t \in DOMAIN working_frame THEN working_frame[t].count ELSE 0

WorkingScore(working_frame, t) ==
    IF t \in DOMAIN working_frame THEN working_frame[t].score ELSE 0

\* a variant of AddScore that forgets the weight of the set
AddScoreUnweighted(score, working_score, working_count) ==
    score + working_score

\* merged_frame['score'] += working_score * working_count
AddScore(score, working_score, working_count) ==
    score + working_score * working_count

\* merged_frame['max_count'] = merged_frame[['max_count','working_count']].max(axis=1)
RowMax(max_count, working_count) == Max2(max_count, working_count)

\* merged_frame['intersections'] += (working_count > 0).astype(np.int)
AddIntersection(intersections, working_count) ==
    intersections + (IF working_count > 0 THEN 1 ELSE 0)

\* one pass of the else-branch of the loop
JoinFrame(merged, working_frame) ==
    [t \in JoinIndex(merged, working_frame) |->
        LET wc == WorkingCount(working_frame, t)
            ws == WorkingScore(working_frame, t)
        IN  [intersections |-> AddIntersection(merged[t].intersections, wc),
             count         |-> merged[t].count + wc,
             max_count     |-> RowMax(merged[t].max_count, wc),
             score         |-> AddScore(merged[t].score, ws, wc)]]

\* merged_frame after one more table
MergeOne(mf, working_frame) ==
    IF mf = None THEN Some(FirstFrame(working_frame))
    ELSE Some(JoinFrame(Get(mf), working_frame))

\* a variant of Dropped that compares with 0 instead of 1
DroppedNone(row) == row.intersections = 0

\* rows removed by merged_frame.drop(merged_frame[intersections == 1].index)
Dropped(row) == row.intersections = 1

DropSingleSet(frame) ==
    [t \in {u \in DOMAIN frame : ~Dropped(frame[u])} |-> frame[t]]

\* merged_frame['score'] = merged_frame['score'] / merged_frame['count']
NormalizeRow(row) == [row EXCEPT !.score = Quot(row.score, row.count)]

Normalize(frame) == [t \in DOMAIN frame |-> NormalizeRow(frame[t])]


\* frame.sort_values(by=['max_count', 'intersections']): rows in ascending
\* key order; the order of rows with equal keys is not fixed (quicksort)
SortKeyLE(r1, r2) ==
    \/ r1.max_count < r2.max_count
    \/ r1.max_count = r2.max_count /\ r1.intersections <= r2.intersections

SortValues(frame) ==
    {s \in Orderings(DOMAIN frame) :
        \A i, j \in 1..Len(s) : i < j => SortKeyLE(frame[s[i]], frame[s[j]])}

\* to_csv(float_format='%0.2f') of the score column
FormattedScores(frame) ==
    {r \in [DOMAIN frame -> UNION {Format2(frame[t].score) : t \in DOMAIN frame}] :
        \A t \in DOMAIN frame : r[t] \in Format2(frame[t].score)}

\* frequency_and_score_histograms raises ValueError at max(binvals) when
\* it is given no rows
HistogramsRaise(frame) == DOMAIN frame = {}

\* intersection_histogram raises ValueError at max(frame['max_count']) when
\* the frame has no rows
IntersectionHistogramRaises(frame) == DOMAIN frame = {}

\* max(frame['max_count'])
MaxFreq(frame) ==
    CHOOSE m \in {frame[t].max_count : t \in DOMAIN frame} :
        \A t \in DOMAIN frame : frame[t].max_count <= m

\* intersect_bins: nextbin = 1, 2, 4, ... while nextbin < max_freq
RECURSIVE IntersectBins(_, _)
IntersectBins(nextbin, max_freq) ==
    IF nextbin < max_freq
    THEN <<nextbin>> \o IntersectBins(nextbin * 2, max_freq)
    ELSE <<>>

\* lastbin while the loop is at nextbin
LastBin(nextbin) == IF nextbin = 1 THEN 0 ELSE nextbin \div 2

\* frame['max_count'].isin([lastbin, nextbin])
InRange(row, lastbin, nextbin) == row.max_count \in {lastbin, nextbin}

\* hists[nextbin]: np.unique(inrange['intersections'], return_counts=True)
Hist(frame, nextbin) ==
    LET inrange == {t \in DOMAIN frame :
                       InRange(frame[t], LastBin(nextbin), nextbin)}
        ibins == {frame[t].intersections : t \in inrange}
    IN  [i \in ibins |->
            Cardinality({t \in inrange : frame[t].intersections = i})]

\* pd.DataFrame(hists).transpose().fillna(0).astype(int): one row per bin,
\* one column per number of intersections seen in a bin
IntersectFrame(frame) ==
    LET bins == IntersectBins(1, MaxFreq(frame))
        binset == {bins[i] : i \in 1..Len(bins)}
        columns == UNION {DOMAIN Hist(frame, b) : b \in binset}
    IN  [b \in binset |->
            [i \in columns |->
                IF i \in DOMAIN Hist(frame, b) THEN Hist(frame, b)[i] ELSE 0]]

\* the variables of calculate_peptide_terms while another command runs
CalcIdle ==
    /\ calc_setidx = 0
    /\ written = {}
    /\ n_recs = 0
    /\ keyidx = 0
    /\ raw_seq = <<>>
    /\ s_scores = <<>>
    /\ gene_terms = <<>>
    /\ term_score_list = <<>>
    /\ n_residues = 0
    /\ n_raw_terms = 0
    /\ term_arr = <<>>
    /\ score_arr = <<>>
    /\ unique_terms = <<>>
    /\ freqs = <<>>
    /\ mean_scores = <<>>

\* the variables of intersect_peptide_terms while another command runs
IntersectIdle ==
    /\ infiles = <<>>
    /\ setidx = 0
    /\ merged_frame = None
    /\ n_terms_total = 0
    /\ n_unique_terms = 0

\* the variables of filter_peptide_terms while another command runs
FilterIdle ==
    /\ infile = [columns |-> {}, rows |-> <<>>]
    /\ cutoff = [inf |-> TRUE, value |-> 0]
    /\ term_frame = None

\* an uncaught exception
Fail(exc) ==
    /\ pc' = "failed"
    /\ error' = exc
    /\ logged' = logged

\* a variant of Exit that does not stop the command
ExitAndGoOn(message) ==
    /\ pc' = pc
    /\ error' = "SystemExit"
    /\ logged' = Some(message)

\* logger.error(message); sys.exit(1)
Exit(message) ==
    /\ pc' = "failed"
    /\ error' = "SystemExit"
    /\ logged' = Some(message)

\* the variables of the command line while a command runs on a set list
\* that is given
CliIdle ==
    /\ argv = <<>>
    /\ argidx = 0
    /\ all_count = 0
    /\ converted = <<>>

(* lines 389-428: one pass of "for calc_set in setlist" *)
IntersectReadSet ==
    /\ UNCHANGED <<clivars, intersect_file>>
    /\ UNCHANGED <<cvars, fvars>>
    /\ pc = "i_loop"
    /\ setidx <= Len(setlist)
    /\ LET calc_set == setlist[setidx] IN
        \* config_obj.config_dict[calc_set]['dir']
        IF ~IsConfigured(calc_set)
        THEN /\ Fail("KeyError")
             /\ UNCHANGED <<ivars, term_file>>
        ELSE IF calc_set \notin present
        THEN /\ Exit(MissingFile(calc_set))
             /\ UNCHANGED <<ivars, term_file>>
        ELSE LET working_frame == infiles[setidx]
                 n_terms_set == FrameLen(working_frame)
                 merged == MergeOne(merged_frame, working_frame)
             IN  /\ merged_frame' = merged
                 /\ n_terms_total' = n_terms_total + n_terms_set
                 /\ n_unique_terms' = FrameLen(Get(merged))
                 /\ setidx' = setidx + 1
                 \* the log line divides by n_unique_terms and n_terms_total
                 /\ IF FrameLen(Get(merged)) = 0 \/ n_terms_total' = 0
                    THEN Fail("ZeroDivisionError")
                    ELSE UNCHANGED <<pc, error, logged>>
                 /\ UNCHANGED <<infiles, term_file>>

(* lines 429-434: k = len(merged_frame.index[0]) and the summary line *)
IntersectEndLoop ==
    /\ UNCHANGED <<clivars, intersect_file>>
    /\ UNCHANGED <<cvars, fvars>>
    /\ pc = "i_loop"
    /\ setidx > Len(setlist)
    \* None has no attribute 'index'
    /\ IF merged_frame = None THEN Fail("AttributeError")
       ELSE IF FrameLen(Get(merged_frame)) = 0 THEN Fail("IndexError")
       ELSE pc' = "i_drop" /\ UNCHANGED <<error, logged>>
    /\ UNCHANGED <<ivars, term_file>>

(* lines 435-443: drop terms that don't intersect in two sets *)
IntersectDrop ==
    /\ UNCHANGED <<clivars, intersect_file>>
    /\ UNCHANGED <<cvars, fvars>>
    /\ pc = "i_drop"
    /\ merged_frame' = Some(DropSingleSet(Get(merged_frame)))
    /\ pc' = "i_normalize"
    /\ UNCHANGED <<error, logged, infiles, setidx, n_terms_total, n_unique_terms, term_file>>

(* lines 444-449: clean up and normalize *)
IntersectNormalize ==
    /\ UNCHANGED <<clivars, intersect_file>>
    /\ UNCHANGED <<cvars, fvars>>
    /\ pc = "i_normalize"
    /\ merged_frame' = Some(Normalize(Get(merged_frame)))
    /\ pc' = "i_histograms"
    /\ UNCHANGED <<error, logged, infiles, setidx, n_terms_total, n_unique_terms, term_file>>

(* lines 450-456: frequency and score histograms *)
IntersectHistograms ==
    /\ UNCHANGED <<clivars, intersect_file>>
    /\ UNCHANGED <<cvars, fvars>>
    /\ pc = "i_histograms"
    /\ IF HistogramsRaise(Get(merged_frame)) THEN Fail("ValueError")
       ELSE pc' = "i_write" /\ UNCHANGED <<error, logged>>
    /\ UNCHANGED <<ivars, term_file>>

(* lines 457-464: sort and write the merged terms *)
IntersectWrite ==
    /\ UNCHANGED <<clivars, intersect_file>>
    /\ UNCHANGED <<cvars, fvars>>
    /\ pc = "i_write"
    /\ \E order \in SortValues(Get(merged_frame)) :
       \E rounded \in FormattedScores(Get(merged_frame)) :
          term_file' = Some([i \in 1..Len(order) |->
              [term          |-> order[i],
               intersections |-> Get(merged_frame)[order[i]].intersections,
               count         |-> Get(merged_frame)[order[i]].count,
               max_count     |-> Get(merged_frame)[order[i]].max_count,
               score         |-> rounded[order[i]]]])
    /\ pc' = "i_intersection_histogram"
    /\ UNCHANGED <<error, logged, ivars>>

(* lines 465-470: histogram of intersections *)
IntersectIntersectionHistogram ==
    /\ UNCHANGED clivars
    /\ UNCHANGED <<cvars, fvars>>
    /\ pc = "i_intersection_histogram"
    /\ IF IntersectionHistogramRaises(Get(merged_frame))
       THEN Fail("ValueError") /\ UNCHANGED intersect_file
       ELSE /\ intersect_file' = Some(IntersectFrame(Get(merged_frame)))
            /\ pc' = "done"
            /\ UNCHANGED <<error, logged>>
    /\ UNCHANGED <<ivars, term_file>>

InitIntersect ==
    /\ pc = "i_loop"
    /\ error = ""
    /\ logged = None
    /\ term_file = NotWritten
    /\ intersect_file = NotWritten
    /\ CliIdle
    /\ \E n \in 0..MaxSets :
        /\ setlist = SubSeq(config_sets, 1, n)
        /\ present \in SUBSET SetsOf(setlist)
        /\ infiles \in [1..n -> PerSetTables]
        \* a file that does not exist has no content
        /\ \A i \in 1..n : setlist[i] \notin present => infiles[i] = <<>>
    /\ setidx = 1
    /\ merged_frame = None
    /\ n_terms_total = 0
    /\ n_unique_terms = 0
    /\ CalcIdle
    /\ FilterIdle

NextIntersect ==
    \/ IntersectReadSet
    \/ IntersectEndLoop
    \/ IntersectDrop
    \/ IntersectNormalize
    \/ IntersectHistograms
    \/ IntersectWrite
    \/ IntersectIntersectionHistogram

SpecIntersect == InitIntersect /\ [][NextIntersect]_vars

----------------------------------------------------------------------------
(* intersect_peptide_terms: properties *)

\* the command has dropped the single-set terms
AfterDrop ==
    pc \in {"i_normalize", "i_histograms", "i_write",
            "i_intersection_histogram", "done"}

\* the command has normalized the scores: merged_frame is the final table
AfterNormalize ==
    pc \in {"i_histograms", "i_write", "i_intersection_histogram", "done"}

\* the count of term t in the i-th input set, 0 when it is absent
CountIn(i, t) == IF t \in DOMAIN infiles[i] THEN infiles[i][t].count ELSE 0

ScoreIn(i, t) == IF t \in DOMAIN infiles[i] THEN infiles[i][t].score ELSE 0

RECURSIVE TotalCount(_, _)
TotalCount(t, n) == IF n = 0 THEN 0 ELSE CountIn(n, t) + TotalCount(t, n - 1)

RECURSIVE LargestCount(_, _)
LargestCount(t, n) ==
    IF n = 0 THEN 0 ELSE Max2(CountIn(n, t), LargestCount(t, n - 1))

RECURSIVE WeightedScores(_, _)
WeightedScores(t, n) ==
    IF n = 0 THEN 0
    ELSE ScoreIn(n, t) * CountIn(n, t) + WeightedScores(t, n - 1)

SetsHolding(t) == {i \in 1..Len(infiles) : CountIn(i, t) > 0}

\* C1: every row of the final table has count = the sum of the term's
\* per-set counts, max_count = its largest per-set count, intersections =
\* the number of sets holding it, and score = the count-weighted mean of
\* its per-set scores; the worked example gives AAAAAAAAAA count 8,
\* max_count 5, score 0.175 (35/2 hundredths), intersections 2, and drops
\* BBBBBBBBBB.
C1_MergedRowAggregates ==
    AfterNormalize =>
        LET final == Get(merged_frame)
            n == Len(infiles)
        IN  /\ \A t \in DOMAIN final :
                /\ final[t].count = TotalCount(t, n)
                /\ final[t].max_count = LargestCount(t, n)
                /\ final[t].intersections = Cardinality(SetsHolding(t))
                /\ final[t].score = Quot(WeightedScores(t, n), TotalCount(t, n))
            /\ infiles = <<ExampleSet1, ExampleSet2>> =>
                final = [t \in {"AAAAAAAAAA"} |->
                            [intersections |-> 2, count |-> 8,
                             max_count |-> 5, score |-> <<35, 2>>]]

\* the worked example has been merged, dropped and normalized
C1_Witness ==
    /\ AfterNormalize
    /\ infiles = <<ExampleSet1, ExampleSet2>>
    /\ "AAAAAAAAAA" \in DOMAIN Get(merged_frame)

\* C2: a term of a later set that is absent from the running merge is
\* inserted with count = max_count = the set's count, the set's score and
\* intersections = 1, so a term held by two or more sets but not by the
\* first one is in the final table.
C2_AbsentTermInserted ==
    /\ (pc = "i_loop" /\ setidx > 2) =>
          LET S == infiles[setidx - 1]
              merged == Get(merged_frame)
          IN  \A t \in DOMAIN S :
                /\ t \in DOMAIN merged
                /\ (\A i \in 1..(setidx - 2) : t \notin DOMAIN infiles[i]) =>
                      /\ merged[t].count = S[t].count
                      /\ merged[t].max_count = S[t].count
                      /\ merged[t].score = S[t].score * S[t].count
                      /\ merged[t].intersections = 1
    /\ AfterNormalize =>
          \A t \in Terms :
              Cardinality(SetsHolding(t)) >= 2 => t \in DOMAIN Get(merged_frame)

\* the final table of the merge loop run over the tables files, in order
RECURSIVE MergeFrom(_, _, _)
MergeFrom(mf, files, i) ==
    IF i > Len(files) THEN mf
    ELSE MergeFrom(MergeOne(mf, files[i]), files, i + 1)

FinalTable(files) == Normalize(DropSingleSet(Get(MergeFrom(None, files, 1))))

\* the run over files reaches the normalize step (no division by zero in
\* the loop's log line)
RunCompletes(files) == Len(files) > 0 /\ DOMAIN files[1] # {}

\* count, max_count and intersections of every row
Content(frame) ==
    [t \in DOMAIN frame |->
        <<frame[t].count, frame[t].max_count, frame[t].intersections>>]

\* C3: the final table has the same terms and, per term, the same count,
\* max_count and intersections for every reordering of the set list.
C3_OrderIndependent ==
    (AfterNormalize /\ Len(infiles) >= 2) =>
        \A p \in Orderings(1..Len(infiles)) :
            LET reordered == [i \in 1..Len(infiles) |-> infiles[p[i]]]
            IN  RunCompletes(reordered) =>
                    Content(FinalTable(reordered)) = Content(Get(merged_frame))

\* C4: after the drop step no row has intersections = 1: every surviving
\* row, in memory and in the written table, has intersections >= 2.
C4_NoSingleSetRow ==
    /\ AfterDrop =>
          \A t \in DOMAIN Get(merged_frame) :
              /\ Get(merged_frame)[t].intersections # 1
              /\ Get(merged_frame)[t].intersections >= 2
    /\ term_file # NotWritten =>
          \A i \in 1..Len(Get(term_file)) : Get(term_file)[i].intersections >= 2

\* the drop step removed a term of the first set and kept another
C4_Witness ==
    /\ pc = "i_normalize"
    /\ DOMAIN Get(merged_frame) # {}
    /\ \E t \in DOMAIN infiles[1] : t \notin DOMAIN Get(merged_frame)

\* the cells of a written histogram: (bin, number of intersections)
Cells(hist) ==
    {<<b, i>> : b \in DOMAIN hist, i \in UNION {DOMAIN hist[c] : c \in DOMAIN hist}}

RECURSIVE SumCells(_, _)
SumCells(hist, cells) ==
    IF cells = {} THEN 0
    ELSE LET c == CHOOSE x \in cells : TRUE
         IN  hist[c[1]][c[2]] + SumCells(hist, cells \ {c})

\* the bins of the written histogram that count the row
BinsCounting(hist, row) ==
    {b \in DOMAIN hist : InRange(row, LastBin(b), b)}

\* C16: the histogram written by intersection_histogram counts every term
\* of the merged table in exactly one of its doubling bins, a term whose
\* max_count is not a power of two and the terms holding the largest
\* max_count included, so the bin totals sum to the number of terms.
C16_EveryTermInOneBin ==
    (setidx >= 1 /\ intersect_file # NotWritten) =>
        LET hist == Get(intersect_file)
            frame == Get(merged_frame)
        IN  /\ \A t \in DOMAIN frame :
                  Cardinality(BinsCounting(hist, frame[t])) = 1
            /\ SumCells(hist, Cells(hist)) = FrameLen(frame)

----------------------------------------------------------------------------
(* calculate_peptide_terms: inputs *)

\* term length, the -k option
K == 2

\* longest sequence of a FASTA record
MaxLen == 4

\* the residues a stored sequence may hold: plain, ambiguous, and masked
\* (lower-case) ones
Residues == {"A", "C", "X", ".", "a", "x"}

AMBIGUOUS_RESIDUES == {"X", "."}

\* the scores the simplicity oracle may give a position, in tenths
\* (0.5 and 2.0)
OracleScores == {5, 20}

\* the set list of the command holds two data sets
CalcSetList == <<"set1", "set2">>

\* a FASTA file holds at most two records
RecordCounts == {0, 1, 2}

\* a record: its sequence and the oracle's score of each position
Records ==
    UNION {[seq : [1..n -> Residues], scores : [1..n -> OracleScores]] :
             n \in 0..MaxLen}

\* the records that may precede the last record of a file
EarlierRecords ==
    {[seq |-> <<"A", "C", "A">>, scores |-> <<5, 20, 5>>],
     [seq |-> <<"A", "A", "A", "A">>, scores |-> <<20, 5, 5, 5>>],
     [seq |-> <<"X", "A">>, scores |-> <<5, 5>>]}

RecordsAt(idx, n) == IF idx < n THEN EarlierRecords ELSE Records

----------------------------------------------------------------------------
(* calculate_peptide_terms: term extraction *)

\* str.upper() of one character
UpperChar(c) ==
    CASE c = "a" -> "A"
      [] c = "x" -> "X"
      [] OTHER   -> c

\* to_str(seq).upper()
Upper(sq) == [i \in 1..Len(sq) |-> UpperChar(sq[i])]

\* a variant of is_unambiguous that tests 'X' only
IsUnambiguousXOnly(window) ==
    ~(\E i \in 1..Len(window) : window[i] = "X")

\* is_unambiguous(seq): no character of AMBIGUOUS_RESIDUES is in seq
is_unambiguous(window) ==
    ~(\E char \in AMBIGUOUS_RESIDUES : \E i \in 1..Len(window) : window[i] = char)

\* a variant of WindowStarts that also takes the last full window
WindowStartsFull(sq) == 1..(Len(sq) - K + 1)

\* range(len(seq)-k), as 1-based start positions
WindowStarts(sq) == 1..(Len(sq) - K)

\* seq[i:i+k] for the 1-based start i
Window(sq, i) == SubSeq(sq, i, i + K - 1)

\* [(str(seq[i:i+k]), s_scores[i]) for i in range(len(seq)-k)
\*                                 if is_unambiguous(str(seq[i:i+k]))],
\* from start position i on
RECURSIVE TermScoresFrom(_, _, _)
TermScoresFrom(sq, scores, i) ==
    IF i \notin WindowStarts(sq) THEN <<>>
    ELSE (IF is_unambiguous(Window(sq, i))
          THEN <<[term |-> Window(sq, i), score |-> scores[i]]>>
          ELSE <<>>) \o TermScoresFrom(sq, scores, i + 1)

TermScores(sq, scores) == TermScoresFrom(sq, scores, 1)

----------------------------------------------------------------------------
(* calculate_peptide_terms: aggregation *)

RECURSIVE SumSeq(_)
SumSeq(q) == IF q = <<>> THEN 0 ELSE Head(q) + SumSeq(Tail(q))

\* byte order of the characters
Ord(c) ==
    CASE c = "." -> 46
      [] c = "A" -> 65
      [] c = "C" -> 67
      [] c = "X" -> 88
      [] c = "a" -> 97
      [] c = "x" -> 120

\* t1 < t2 for two byte strings of equal length
RECURSIVE TermLess(_, _)
TermLess(t1, t2) ==
    IF t1 = <<>> \/ t2 = <<>> THEN FALSE
    ELSE \/ Ord(Head(t1)) < Ord(Head(t2))
         \/ Head(t1) = Head(t2) /\ TermLess(Tail(t1), Tail(t2))

\* a variant of ToInt16 that keeps the fraction (a float array)
KeepFraction(s10) == s10

\* np.array(..., dtype=np.int16) of a score given in tenths: truncated to a
\* whole number, kept in 16 bits; the result in tenths
ToInt16(s10) ==
    LET whole == s10 \div 10
        wrapped == ((whole + 32768) % 65536) - 32768
    IN  wrapped * 10

\* np.argsort(term_arr): the index orders that sort the terms (quicksort:
\* the order of equal terms is not fixed)
ArgSorts(terms) ==
    {p \in Orderings(1..Len(terms)) :
        \A i, j \in 1..Len(terms) : i < j => ~TermLess(terms[p[j]], terms[p[i]])}

\* np.unique(term_arr): the distinct terms, ascending
Unique(terms) ==
    LET S == {terms[i] : i \in 1..Len(terms)}
    IN  CHOOSE u \in Orderings(S) :
            \A i, j \in 1..Cardinality(S) : i < j => TermLess(u[i], u[j])

\* return_index: the first position of term t in the sorted array
Beginning(terms, t) ==
    CHOOSE b \in 1..Len(terms) :
        terms[b] = t /\ \A j \in 1..(b - 1) : terms[j] # t

\* a variant of Freq that counts one occurrence too many
FreqLong(terms, t) == Cardinality({i \in 1..Len(terms) : terms[i] = t}) + 1

\* return_counts: the number of positions holding term t
Freq(terms, t) == Cardinality({i \in 1..Len(terms) : terms[i] = t})

\* scores[b:b+f] for the 1-based position b: a slice stops at the end of
\* the array
Slice(scores, b, f) == SubSeq(scores, b, IF b + f - 1 > Len(scores) THEN Len(scores) ELSE b + f - 1)

\* score_arr[beginnings[i]:beginnings[i]+freqs[i]].mean(), in tenths
MeanScore(scores, b, f) ==
    Quot(SumSeq(Slice(scores, b, f)), Len(Slice(scores, b, f)))

\* np.argsort(freqs): the index orders that sort the counts
FreqSorts(fr) ==
    {p \in Orderings(1..Len(fr)) :
        \A i, j \in 1..Len(fr) : i < j => fr[p[i]] <= fr[p[j]]}

\* the mean score q (tenths) as a quotient in hundredths
Hundredths(q) == Quot(q[1] * 10, q[2])

----------------------------------------------------------------------------
(* calculate_peptide_terms: the command *)

(* lines 197-214: top of "for calc_set in setlist": the input file is
   checked and opened, the per-set accumulators are reset.  term_file is
   the table of the set being processed. *)
CalcOpenSet ==
    /\ UNCHANGED <<clivars, intersect_file>>
    /\ pc = "c_set"
    /\ calc_setidx <= Len(setlist)
    /\ LET calc_set == setlist[calc_setidx] IN
        \* config_obj.config_dict[calc_set]['dir']
        IF ~IsConfigured(calc_set)
        THEN /\ Fail("KeyError")
             /\ UNCHANGED <<gvars, term_file>>
        ELSE IF calc_set \notin present
        THEN /\ Exit(MissingFile(calc_set))
             /\ UNCHANGED <<gvars, term_file>>
        ELSE /\ \E n \in RecordCounts : n_recs' = n
             /\ keyidx' = 1
             /\ term_score_list' = <<>>
             /\ n_residues' = 0
             /\ n_raw_terms' = 0
             /\ term_file' = NotWritten
             /\ pc' = "c_gene"
             /\ UNCHANGED <<error, logged, raw_seq, s_scores, gene_terms>>
    /\ UNCHANGED <<calc_setidx, written, avars, ivars, fvars>>

(* the set list is exhausted: the command returns *)
CalcReturn ==
    /\ UNCHANGED <<clivars, intersect_file>>
    /\ pc = "c_set"
    /\ calc_setidx > Len(setlist)
    /\ pc' = "done"
    /\ UNCHANGED <<error, logged, term_file, ivars, cvars, fvars>>

(* lines 232-240 (and the same code under the progress bar, 221-229):
   one pass of "for key in keys" *)
CalcReadGene ==
    /\ UNCHANGED <<clivars, intersect_file>>
    /\ pc = "c_gene"
    /\ keyidx <= n_recs
    /\ \E rec \in RecordsAt(keyidx, n_recs) :
        LET seq == Upper(rec.seq)
            emitted == TermScores(seq, rec.scores)
        IN  /\ raw_seq' = rec.seq
            /\ s_scores' = rec.scores
            /\ gene_terms' = emitted
            /\ term_score_list' = term_score_list \o emitted
            /\ n_residues' = n_residues + Len(seq)
            /\ n_raw_terms' = n_raw_terms + Len(seq) - K + 1
    /\ keyidx' = keyidx + 1
    /\ UNCHANGED <<pc, error, logged, term_file, n_recs, calc_setidx, written, avars, ivars, fvars>>

(* lines 242-256: the term and score arrays and the log line.  The locals
   of the record loop are not read again and are cleared here;
   term_score_list is kept (the code deletes it) as the record of the
   input of the aggregation. *)
CalcArrays ==
    /\ UNCHANGED <<clivars, intersect_file>>
    /\ pc = "c_gene"
    /\ keyidx > n_recs
    /\ term_arr' = [i \in 1..Len(term_score_list) |-> term_score_list[i].term]
    /\ score_arr' = [i \in 1..Len(term_score_list) |->
                        ToInt16(term_score_list[i].score)]
    /\ raw_seq' = <<>>
    /\ s_scores' = <<>>
    /\ gene_terms' = <<>>
    \* 100*n_skipped/n_raw_terms
    /\ IF n_raw_terms = 0 THEN Fail("ZeroDivisionError")
       ELSE pc' = "c_unique" /\ UNCHANGED <<error, logged>>
    /\ UNCHANGED <<term_file, calc_setidx, written, n_recs, keyidx,
                   term_score_list, n_residues, n_raw_terms,
                   unique_terms, freqs, mean_scores, ivars, fvars>>

(* lines 257-275: calculate unique terms *)
CalcUnique ==
    /\ UNCHANGED <<clivars, intersect_file>>
    /\ pc = "c_unique"
    /\ \E sort_arr \in ArgSorts(term_arr) :
        LET sorted_terms == [i \in 1..Len(term_arr) |-> term_arr[sort_arr[i]]]
            sorted_scores == [i \in 1..Len(term_arr) |-> score_arr[sort_arr[i]]]
            uniq == Unique(sorted_terms)
            fr == [i \in 1..Len(uniq) |-> Freq(sorted_terms, uniq[i])]
        IN  /\ term_arr' = sorted_terms
            /\ score_arr' = sorted_scores
            /\ unique_terms' = uniq
            /\ freqs' = fr
            \* max(freqs)
            /\ IF Len(fr) = 0
               THEN /\ Fail("ValueError")
                    /\ UNCHANGED mean_scores
               ELSE /\ mean_scores' = [i \in 1..Len(uniq) |->
                          MeanScore(sorted_scores,
                                    Beginning(sorted_terms, uniq[i]), fr[i])]
                    /\ pc' = "c_write"
                    /\ UNCHANGED <<error, logged>>
    /\ UNCHANGED <<term_file, calc_setidx, written, gvars, ivars, fvars>>

(* lines 276-288: write terms, counts, and scores in sorted form *)
CalcWrite ==
    /\ UNCHANGED <<clivars, intersect_file>>
    /\ pc = "c_write"
    /\ \E sort_arr \in FreqSorts(freqs) :
       \E text \in [1..Len(freqs) -> UNION {Format2(Hundredths(mean_scores[i])) :
                                               i \in 1..Len(freqs)}] :
        /\ \A i \in 1..Len(freqs) : text[i] \in Format2(Hundredths(mean_scores[i]))
        /\ term_file' = Some([i \in 1..Len(freqs) |->
              [term  |-> unique_terms[sort_arr[i]],
               count |-> freqs[sort_arr[i]],
               score |-> text[sort_arr[i]]]])
    /\ written' = written \cup {calc_setidx}
    /\ pc' = "c_histograms"
    /\ UNCHANGED <<error, logged, calc_setidx, gvars, avars, ivars, fvars>>

(* lines 289-290: histograms; then the next set.  The arrays of the set are
   not read again and are cleared. *)
CalcHistograms ==
    /\ UNCHANGED <<clivars, intersect_file>>
    /\ pc = "c_histograms"
    /\ IF Len(freqs) = 0 THEN Fail("ValueError") /\ UNCHANGED <<calc_setidx, avars, term_score_list>>
       ELSE /\ pc' = "c_set"
            /\ calc_setidx' = calc_setidx + 1
            /\ term_score_list' = <<>>
            /\ term_arr' = <<>>
            /\ score_arr' = <<>>
            /\ unique_terms' = <<>>
            /\ freqs' = <<>>
            /\ mean_scores' = <<>>
            /\ UNCHANGED <<error, logged>>
    /\ UNCHANGED <<term_file, written, n_recs, keyidx, raw_seq, s_scores,
                   gene_terms, n_residues, n_raw_terms, ivars, fvars>>

InitCalc ==
    /\ pc = "c_set"
    /\ error = ""
    /\ logged = None
    /\ term_file = NotWritten
    /\ intersect_file = NotWritten
    /\ CliIdle
    /\ setlist \in {<<>>, CalcSetList}
    /\ present \in SUBSET SetsOf(setlist)
    /\ calc_setidx = 1
    /\ written = {}
    /\ n_recs = 0
    /\ keyidx = 0
    /\ raw_seq = <<>>
    /\ s_scores = <<>>
    /\ gene_terms = <<>>
    /\ term_score_list = <<>>
    /\ n_residues = 0
    /\ n_raw_terms = 0
    /\ term_arr = <<>>
    /\ score_arr = <<>>
    /\ unique_terms = <<>>
    /\ freqs = <<>>
    /\ mean_scores = <<>>
    /\ IntersectIdle
    /\ FilterIdle

NextCalc ==
    \/ CalcOpenSet
    \/ CalcReturn
    \/ CalcReadGene
    \/ CalcArrays
    \/ CalcUnique
    \/ CalcWrite
    \/ CalcHistograms

SpecCalc == InitCalc /\ [][NextCalc]_vars

----------------------------------------------------------------------------
(* calculate_peptide_terms: properties *)

\* a record of the open file has just been read
RecordRead == pc = "c_gene" /\ keyidx > 1

\* the stored sequence holds no ambiguous residue, masked or not
NoAmbiguousResidue(sq) ==
    \A j \in 1..Len(sq) : UpperChar(sq[j]) \notin AMBIGUOUS_RESIDUES

\* C5: a sequence of length L >= k without ambiguous residues yields
\* exactly L - k (term, score) pairs, the i-th being the length-k window of
\* the upper-cased sequence at start position i paired with the oracle's
\* score of position i.
C5_WindowsOfCleanSequence ==
    (RecordRead /\ Len(raw_seq) >= K /\ NoAmbiguousResidue(raw_seq)) =>
        /\ Len(gene_terms) = Len(raw_seq) - K
        /\ \A i \in 1..(Len(raw_seq) - K) :
            /\ gene_terms[i].term = [j \in 1..K |-> UpperChar(raw_seq[i + j - 1])]
            /\ gene_terms[i].score = s_scores[i]

\* a clean sequence with a masked residue gave two windows with different
\* scores
C5_Witness ==
    /\ RecordRead
    /\ Len(raw_seq) = K + 2
    /\ NoAmbiguousResidue(raw_seq)
    /\ \E j \in 1..K : raw_seq[j] = "a"
    /\ Len(gene_terms) = 2
    /\ s_scores[1] # s_scores[2]

HasAmbiguous(term) ==
    \E j \in 1..Len(term) : term[j] \in AMBIGUOUS_RESIDUES

\* C6: no emitted term holds 'X' or '.', whatever the sequence (masked
\* residues are upper-cased before the windows are cut).
C6_NoAmbiguousTerm ==
    /\ \A i \in 1..Len(gene_terms) : ~HasAmbiguous(gene_terms[i].term)
    /\ \A i \in 1..Len(term_score_list) : ~HasAmbiguous(term_score_list[i].term)
    /\ \A i \in 1..Len(unique_terms) : ~HasAmbiguous(unique_terms[i])

\* a sequence starting with a masked ambiguous residue gave one term
C6_Witness ==
    /\ RecordRead
    /\ Len(raw_seq) = K + 2
    /\ raw_seq[1] = "x"
    /\ Len(gene_terms) = 1

\* the aggregation step has produced the rows of the set
Aggregated == pc \in {"c_write", "c_histograms"}

\* positions of term t in the (term, score) occurrences of the set
Occurrences(t) ==
    {i \in 1..Len(term_score_list) : term_score_list[i].term = t}

\* C7: the aggregation gives one row per distinct term, its count the
\* number of occurrences of the term, so the counts sum to the number of
\* occurrences; the written table holds the same rows.
C7_OneRowPerTerm ==
    /\ Aggregated =>
        /\ Len(freqs) = Len(unique_terms)
        /\ \A i, j \in 1..Len(unique_terms) :
              i # j => unique_terms[i] # unique_terms[j]
        /\ {unique_terms[i] : i \in 1..Len(unique_terms)} =
              {term_score_list[i].term : i \in 1..Len(term_score_list)}
        /\ \A i \in 1..Len(unique_terms) :
              freqs[i] = Cardinality(Occurrences(unique_terms[i]))
        /\ SumSeq(freqs) = Len(term_score_list)
    /\ pc = "c_histograms" =>
        LET rows == Get(term_file)
        IN  /\ Len(rows) = Len(unique_terms)
            /\ \A i, j \in 1..Len(rows) : i # j => rows[i].term # rows[j].term
            /\ \A i \in 1..Len(rows) :
                  rows[i].count = Cardinality(Occurrences(rows[i].term))

\* four occurrences of two or more terms, one of them repeated
C7_Witness ==
    /\ pc = "c_histograms"
    /\ Len(term_score_list) = 4
    /\ Len(unique_terms) >= 2
    /\ \E i \in 1..Len(freqs) : freqs[i] >= 2

RECURSIVE SumScores(_, _)
SumScores(S, n) ==
    IF n = 0 THEN 0
    ELSE (IF n \in S THEN term_score_list[n].score ELSE 0) + SumScores(S, n - 1)

\* C8: the score of each row is the arithmetic mean of the scores the
\* oracle gave the occurrences of its term.
C8_MeanOfOracleScores ==
    Aggregated =>
        \A i \in 1..Len(unique_terms) :
            LET occ == Occurrences(unique_terms[i])
            IN  mean_scores[i] =
                    Quot(SumScores(occ, Len(term_score_list)), Cardinality(occ))

\* the records of the set have all been read and gave no term
ZeroTerms ==
    /\ calc_setidx >= 1
    /\ keyidx > n_recs
    /\ term_score_list = <<>>

\* C11: a data set that yields zero unambiguous terms does not make
\* calculate_peptide_terms fail: no division by zero (ZeroDivisionError)
\* and no maximum over an empty collection (ValueError) ends the command
\* while the set has no terms.
C11_ZeroTermsNoFailure ==
    (ZeroTerms /\ pc = "failed") =>
        error \notin {"ZeroDivisionError", "ValueError"}

\* n_skipped = n_raw_terms - n_terms, the count the log line reports as
\* ambiguous
n_skipped == n_raw_terms - Len(term_arr)

\* the count reported so far while the records are read
SkippedSoFar == n_raw_terms - Len(term_score_list)

\* the length-k windows of a sequence: L - k + 1 start positions
AllWindowStarts(sq) == 1..(Len(sq) - K + 1)

\* the number of length-k windows of a sequence that hold an ambiguous
\* residue
AmbiguousWindows(sq) ==
    Cardinality({i \in AllWindowStarts(sq) : ~is_unambiguous(Window(sq, i))})

\* C17: the count reported as skipped as ambiguous is the number of
\* length-k windows of the set's sequences that hold an ambiguous residue:
\* every record read adds the number of its ambiguous windows to it (so it
\* is 0 for sequences without ambiguous residues), and the reported count
\* is never negative.
C17_SkippedCountsAmbiguousWindows ==
    /\ [](pc = "c_unique" => n_skipped >= 0)
    /\ [][(pc = "c_gene" /\ keyidx' = keyidx + 1) =>
            SkippedSoFar' - SkippedSoFar = AmbiguousWindows(Upper(raw_seq'))]_vars

----------------------------------------------------------------------------
(* filter_peptide_terms *)

\* the default of --cutoff, in hundredths
DEFAULT_MAX_SCORE == 30

\* the scores (hundredths) a table given to the filter may hold
FilterScores == {10, 30, 50}

\* the columns of a merged table and of a raw per-set table
MergedColumns == {"intersections", "count", "max_count", "score"}

RawColumns == {"count", "score"}

MergedRowVals ==
    {[intersections |-> n, count |-> n * m, max_count |-> m, score |-> sc] :
        n \in {2, 3}, m \in {1, 2}, sc \in FilterScores}

RawRowVals == [count : {1, 2}, score : FilterScores]

\* the tables the summary directory may hold
FilterTables ==
    {[columns |-> MergedColumns, rows |-> r] :
        r \in UNION {[D -> MergedRowVals] : D \in SUBSET Terms}}
    \cup
    {[columns |-> RawColumns, rows |-> r] :
        r \in UNION {[D -> RawRowVals] : D \in SUBSET Terms}}

\* the cutoffs: below every score, between scores, the default, +infinity
Cutoffs ==
    {[inf |-> FALSE, value |-> v] : v \in {5, 20, DEFAULT_MAX_SCORE}}
    \cup {[inf |-> TRUE, value |-> 0]}

\* a variant of AboveCutoff that also rejects a score equal to the cutoff
AtOrAboveCutoff(score, c) == ~c.inf /\ score >= c.value

\* term_frame['score'] > cutoff
AboveCutoff(score, c) == ~c.inf /\ score > c.value

\* term_frame.drop(term_frame[term_frame['score'] > cutoff].index)
DropAbove(frame, c) ==
    [frame EXCEPT !.rows =
        [t \in {u \in DOMAIN frame.rows : ~AboveCutoff(frame.rows[u].score, c)} |->
            frame.rows[t]]]

\* by=['max_count', 'intersections']
SORT_COLUMNS == {"max_count", "intersections"}

\* sort_values raises KeyError for a column the frame does not have
SortRaises(frame) == ~(SORT_COLUMNS \subseteq frame.columns)

\* a row as written: the index and every column ('%0.2f' leaves a score
\* read with two decimals as it is)
WrittenRow(frame, t) ==
    [c \in frame.columns \cup {"term"} |->
        IF c = "term" THEN t ELSE frame.rows[t][c]]

(* lines 304-321: read the input table *)
FilterRead ==
    /\ UNCHANGED <<clivars, intersect_file>>
    /\ pc = "f_read"
    /\ \E exists \in BOOLEAN :
        IF ~exists
        THEN Exit(MissingFile("summary")) /\ UNCHANGED term_frame
        ELSE /\ term_frame' = Some(infile)
             \* k = len(term_frame.index[0])
             /\ IF FrameLen(infile.rows) = 0 THEN Fail("IndexError")
                ELSE pc' = "f_drop" /\ UNCHANGED <<error, logged>>
    /\ UNCHANGED <<term_file, infile, cutoff, ivars, cvars>>

(* lines 322-334: drop terms that don't meet cutoff *)
FilterDrop ==
    /\ UNCHANGED <<clivars, intersect_file>>
    /\ pc = "f_drop"
    /\ term_frame' = Some(DropAbove(Get(term_frame), cutoff))
    /\ pc' = "f_histograms"
    /\ UNCHANGED <<error, logged, term_file, infile, cutoff, ivars, cvars>>

(* lines 335-340: frequency and score histograms *)
FilterHistograms ==
    /\ UNCHANGED <<clivars, intersect_file>>
    /\ pc = "f_histograms"
    /\ IF HistogramsRaise(Get(term_frame).rows) THEN Fail("ValueError")
       ELSE pc' = "f_write" /\ UNCHANGED <<error, logged>>
    /\ UNCHANGED <<term_file, fvars, ivars, cvars>>

(* lines 341-348: sort and write terms *)
FilterWrite ==
    /\ UNCHANGED <<clivars, intersect_file>>
    /\ pc = "f_write"
    /\ IF SortRaises(Get(term_frame))
       THEN Fail("KeyError") /\ UNCHANGED term_file
       ELSE /\ \E order \in SortValues(Get(term_frame).rows) :
                term_file' = Some([i \in 1..Len(order) |->
                                      WrittenRow(Get(term_frame), order[i])])
            /\ pc' = "f_intersection_histogram"
            /\ UNCHANGED <<error, logged>>
    /\ UNCHANGED <<fvars, ivars, cvars>>

(* lines 349-354: histogram of intersections *)
FilterIntersectionHistogram ==
    /\ UNCHANGED clivars
    /\ pc = "f_intersection_histogram"
    /\ IF IntersectionHistogramRaises(Get(term_frame).rows)
       THEN Fail("ValueError") /\ UNCHANGED intersect_file
       ELSE /\ intersect_file' = Some(IntersectFrame(Get(term_frame).rows))
            /\ pc' = "done"
            /\ UNCHANGED <<error, logged>>
    /\ UNCHANGED <<term_file, fvars, ivars, cvars>>

InitFilter ==
    /\ pc = "f_read"
    /\ error = ""
    /\ logged = None
    /\ term_file = NotWritten
    /\ intersect_file = NotWritten
    /\ CliIdle
    /\ setlist = <<>>
    /\ present = {}
    /\ infile \in FilterTables
    /\ cutoff \in Cutoffs
    /\ term_frame = None
    /\ IntersectIdle
    /\ CalcIdle

NextFilter ==
    \/ FilterRead
    \/ FilterDrop
    \/ FilterHistograms
    \/ FilterWrite
    \/ FilterIntersectionHistogram

SpecFilter == InitFilter /\ [][NextFilter]_vars

----------------------------------------------------------------------------
(* filter_peptide_terms: properties *)

\* the input rows whose score is <= c, as written rows
RowsWithin(frame, c) ==
    {WrittenRow(frame, t) :
        t \in {u \in DOMAIN frame.rows : c.inf \/ frame.rows[u].score <= c.value}}

WrittenRows == {Get(term_file)[i] : i \in 1..Len(Get(term_file))}

\* C9: the rows of the written table are exactly the input rows whose score
\* is <= the cutoff, unchanged; with cutoff +infinity they are all the input
\* rows.
C9_RowsWithinCutoff ==
    term_file # NotWritten =>
        /\ WrittenRows = RowsWithin(infile, cutoff)
        /\ Len(Get(term_file)) = Cardinality(WrittenRows)
        /\ cutoff.inf =>
              WrittenRows = {WrittenRow(infile, t) : t \in DOMAIN infile.rows}

\* a table with one row at the cutoff and one above it has been written
C9_Witness ==
    /\ term_file # NotWritten
    /\ ~cutoff.inf
    /\ \E t \in DOMAIN infile.rows : infile.rows[t].score = cutoff.value
    /\ \E t \in DOMAIN infile.rows : infile.rows[t].score > cutoff.value
    /\ Len(Get(term_file)) = 1

\* the terms in ascending order
TermOrder == <<"AAAAAAAAAA", "BBBBBBBBBB">>

TermRank(t) == CHOOSE i \in 1..Len(TermOrder) : TermOrder[i] = t

\* the input is a raw per-set table
IsRaw(frame) == frame.columns = RawColumns

\* C10: given a raw per-set table (no max_count/intersections columns) the
\* filter completes without error and writes the surviving rows sorted by
\* term.  Stated for an input file that exists and has a row within the
\* cutoff.
C10_RawTableSortedByTerm ==
    (/\ IsRaw(infile)
     /\ RowsWithin(infile, cutoff) # {}
     /\ pc \in {"done", "failed"}
     /\ error # "SystemExit") =>
        /\ pc = "done"
        /\ error = ""
        /\ term_file # NotWritten
        /\ WrittenRows = RowsWithin(infile, cutoff)
        /\ \A i, j \in 1..Len(Get(term_file)) :
              i < j => TermRank(Get(term_file)[i].term) <
                       TermRank(Get(term_file)[j].term)

----------------------------------------------------------------------------
(* The command line of intersect_peptide_terms: click converts every set
   name with DataSetValidator.convert, the command resolves the values with
   DataSetValidator.multiple_or_empty_set and loops over the result *)

\* most set names on a command line
MaxArgs == 2

\* the names a command line may hold: the configured sets, 'all', and a
\* name that is not configured
ArgNames == ConfiguredSets \cup {"all", "bogus"}

\* the tables the set directories hold in a run from the command line
CliTables == {ExampleSet1, ExampleSet2}

\* iterating a string gives its characters
Chars(name) ==
    CASE name = "set1" -> <<"s", "e", "t", "1">>
      [] name = "set2" -> <<"s", "e", "t", "2">>
      [] name = "set3" -> <<"s", "e", "t", "3">>
      [] name = "set4" -> <<"s", "e", "t", "4">>

\* logger.error('"all" is allowed at most one time in a set list.')
AllTwice == [text |-> "all is allowed at most one time in a set list", arg |-> ""]

\* the message of line 177, '"%s" is not a recognized set', formatted with
\* the set name
NotRecognized(setname) == [text |-> "is not a recognized set", arg |-> setname]

\* logger.error('Empty setlist, make sure sets are defined.')
EmptySetlist == [text |-> "Empty setlist, make sure sets are defined", arg |-> ""]

\* the value convert returns for 'all': tuple(config_obj.config_dict['sets'])
TupleValue(names) == [istuple |-> TRUE, value |-> names]

\* the value convert returns for a configured set: the name, a string
StrValue(setname) == [istuple |-> FALSE, value |-> setname]

\* any([isinstance(setname, tuple) for setname in setlist])
AnyTuple(values) == \E i \in 1..Len(values) : values[i].istuple

\* tuple(chain(*setlist)): every value is iterated, a tuple gives its names
\* and a string gives its characters
RECURSIVE Chain(_)
Chain(values) ==
    IF Len(values) = 0 THEN <<>>
    ELSE (IF Head(values).istuple THEN Head(values).value
          ELSE Chars(Head(values).value)) \o Chain(Tail(values))

\* setlist == []: click passes the values of a nargs=-1 argument as a
\* tuple, and a tuple is never equal to a list
EqualsEmptyList(values) == FALSE

\* the names of a value list without tuples
Names(values) == [i \in 1..Len(values) |-> values[i].value]

(* common.py lines 161-179: DataSetValidator.convert of the next set name *)
ValidatorConvert ==
    /\ pc = "v_convert"
    /\ argidx <= Len(argv)
    /\ LET setname == argv[argidx] IN
        IF setname = "all"
        THEN /\ all_count' = all_count + 1
             /\ IF all_count + 1 > 1
                THEN Exit(AllTwice) /\ UNCHANGED <<converted, argidx>>
                ELSE /\ converted' = Append(converted, TupleValue(config_sets))
                     /\ argidx' = argidx + 1
                     /\ UNCHANGED <<pc, error, logged>>
        ELSE IF ~IsConfigured(setname)
        \* line 177 formats the message with argset, a name that is not
        \* defined: NameError, nothing is logged
        THEN Fail("NameError") /\ UNCHANGED <<all_count, converted, argidx>>
        ELSE /\ converted' = Append(converted, StrValue(setname))
             /\ argidx' = argidx + 1
             /\ UNCHANGED <<pc, error, logged, all_count>>
    /\ UNCHANGED <<argv, setlist, present, term_file, intersect_file,
                   ivars, cvars, fvars>>

\* the tables read for a set list from the directories holding disk
FilesOf(list, disk) ==
    [i \in 1..Len(list) |-> IF list[i] \in present THEN disk[list[i]] ELSE <<>>]

(* core.py lines 369-388 and common.py lines 182-195: the command is called
   with the converted values and resolves them with multiple_or_empty_set;
   the tables of the sets are those of their directories *)
IntersectEnter ==
    /\ pc = "v_convert"
    /\ argidx > Len(argv)
    /\ IF ~AnyTuple(converted) /\ EqualsEmptyList(converted)
       THEN /\ Exit(EmptySetlist)
            /\ UNCHANGED <<setlist, ivars>>
       ELSE /\ setlist' = (IF AnyTuple(converted) THEN Chain(converted)
                                                  ELSE Names(converted))
            /\ \E disk \in [ConfiguredSets -> CliTables] :
                  infiles' = FilesOf(setlist', disk)
            /\ merged_frame' = None
            /\ n_terms_total' = 0
            /\ setidx' = 1
            /\ pc' = "i_loop"
            /\ UNCHANGED <<error, logged, n_unique_terms>>
    /\ UNCHANGED <<argv, argidx, all_count, converted, present, term_file,
                   intersect_file, cvars, fvars>>

InitCli ==
    /\ pc = "v_convert"
    /\ error = ""
    /\ logged = None
    /\ term_file = NotWritten
    /\ intersect_file = NotWritten
    /\ argv \in UNION {[1..n -> ArgNames] : n \in 0..MaxArgs}
    /\ argidx = 1
    /\ all_count = 0
    /\ converted = <<>>
    /\ setlist = <<>>
    /\ present \in SUBSET ConfiguredSets
    /\ IntersectIdle
    /\ CalcIdle
    /\ FilterIdle

NextCli ==
    \/ ValidatorConvert
    \/ IntersectEnter
    \/ NextIntersect

SpecCli == InitCli /\ [][NextCli]_vars

----------------------------------------------------------------------------
(* The command line: properties *)

\* click has converted every set name and the command has been entered
Entered == argidx > Len(argv) /\ pc # "v_convert"

\* C12: when no set name is given, multiple_or_empty_set logs an error and
\* exits: the command never reaches its loop over the set list, it ends
\* with SystemExit and the 'Empty setlist' message.
C12_EmptySetListExits ==
    (argidx >= 1 /\ argv = <<>>) =>
        /\ pc \in {"v_convert", "failed"}
        /\ pc = "failed" =>
              error = "SystemExit" /\ logged = Some(EmptySetlist)

\* the names convert accepts
Recognized == ConfiguredSets \cup {"all"}

\* C13: a set name that is neither 'all' nor a configured set ends the
\* conversion with a logged diagnostic naming it and with SystemExit, and
\* with no other exception; no such name is converted.
C13_UnknownSetDiagnosed ==
    /\ \A i \in 1..(argidx - 1) : argv[i] \in Recognized
    /\ (pc = "failed" /\ argidx \in 1..Len(argv)
           /\ argv[argidx] \notin Recognized) =>
          /\ error = "SystemExit"
          /\ logged = Some(NotRecognized(argv[argidx]))

\* 'all' is given exactly once and every other name is a configured set
AllOnce(args) ==
    /\ Cardinality({i \in 1..Len(args) : args[i] = "all"}) = 1
    /\ \A i \in 1..Len(args) : args[i] \in Recognized

\* C14: when the set list holds 'all' exactly once, alone or together with
\* configured sets, the resolved set list holds every configured set and
\* each of its elements is the name of a configured set.
C14_AllExpandsToConfiguredSets ==
    (Entered /\ AllOnce(argv)) =>
        /\ \A name \in ConfiguredSets :
              \E i \in 1..Len(setlist) : setlist[i] = name
        /\ \A i \in 1..Len(setlist) : IsConfigured(setlist[i])

----------------------------------------------------------------------------
(* Missing input files *)

\* the loop of a command is at position idx of the set list, at a set whose
\* input file is missing
AtMissing(idx) ==
    /\ idx \in 1..Len(setlist)
    /\ IsConfigured(setlist[idx])
    /\ setlist[idx] \notin present

\* the step logs the missing file of position idx, exits, and writes nothing
ExitsAt(idx) ==
    /\ pc' = "failed"
    /\ error' = "SystemExit"
    /\ logged' = Some(MissingFile(setlist[idx]))
    /\ UNCHANGED <<written, term_file, intersect_file, calc_setidx, setidx>>

\* C15: when the loop of calculate_peptide_terms or intersect_peptide_terms
\* reaches a set whose input file is missing, the command logs the error
\* and exits at that point, writing nothing; a command that has ended takes
\* no further step, so nothing is written for that set or a later one; and
\* no set before the loop's position was missing (none is skipped).
C15_MissingFileStops ==
    /\ [](/\ \A j \in 1..(calc_setidx - 1) : setlist[j] \in present
          /\ \A j \in 1..(setidx - 1) : setlist[j] \in present
          /\ \A j \in written : j < calc_setidx \/ (j = calc_setidx /\ setlist[j] \in present))
    /\ [][(pc = "c_set" /\ AtMissing(calc_setidx)) => ExitsAt(calc_setidx)]_vars
    /\ [][(pc = "i_loop" /\ AtMissing(setidx)) => ExitsAt(setidx)]_vars
    /\ [][pc # "failed"]_vars

\* calculate_peptide_terms has written the table of the first set and has
\* exited at the second set, whose input file is missing
C15_Witness ==
    /\ pc = "failed"
    /\ error = "SystemExit"
    /\ calc_setidx = 2
    /\ written = {1}
    /\ AtMissing(2)
    /\ logged = Some(MissingFile(setlist[2]))

----------------------------------------------------------------------------
(* The commands together: one invocation runs one command *)

Init == InitCalc \/ InitIntersect \/ InitFilter \/ InitCli

Next == NextCalc \/ NextFilter \/ NextCli

Spec == Init /\ [][Next]_vars

====
